---- MODULE Spec2Model ----
(***************************************************************************)
(* A model of wikitextparser.py: the span table shared by all node views,  *)
(* the masking tokenizer (_get_spans), the rebase of the table after a     *)
(* text assignment (_shrink_span_update / _extend_span_update), the        *)
(* argument and section queries and the property setters.                  *)
(*                                                                         *)
(* Text is a sequence of one-character strings.  Offsets and spans are the *)
(* source's: 0-based, half-open (start, end), written <<start, end>>.      *)
(***************************************************************************)
EXTENDS Integers, Sequences, FiniteSets, TLC

VARIABLES
    Buffer,     \* self._lststr[0], the text shared by every view
    spans,      \* self._spans: category name -> sequence of <<start, end>>
    err,        \* the exception the last call raised, "none" when it returned
    last,       \* the last call: its name, its view, its arguments
    result,     \* the value the last query returned (a sequence of slots)
    hist,       \* bookkeeping of the run: number of calls, lengths, deltas
    tok,        \* the local variables of a running _get_spans
    pc          \* where the running _get_spans is

vars == <<Buffer, spans, err, last, result, hist, tok, pc>>

----------------------------------------------------------------------------
(* Python's str and list primitives                                        *)

Min(S) == CHOOSE x \in S : \A y \in S : x <= y
Max(S) == CHOOSE x \in S : \A y \in S : x >= y

\* the least, the greatest element of S, none when S is empty
MinOr(S, none) == IF S = {} THEN none ELSE Min(S)
MaxOr(S, none) == IF S = {} THEN none ELSE Max(S)

\* s[i] for an offset inside s, "" otherwise (no character there)
At(s, i) == IF 0 <= i /\ i < Len(s) THEN s[i + 1] ELSE ""

\* s.startswith(lit, i)
StartsAt(s, i, lit) ==
    /\ 0 <= i
    /\ i + Len(lit) <= Len(s)
    /\ \A k \in 1..Len(lit) : s[i + k] = lit[k]

\* the index a slice bound denotes: negative bounds count from the end,
\* and the result is clamped to 0..n
ClampIndex(a, n) ==
    IF a < -n THEN 0 ELSE IF a < 0 THEN a + n ELSE IF a > n THEN n ELSE a

\* s[a:b]; SubSeq is empty when its first index is past its last
PySlice(s, a, b) ==
    SubSeq(s, ClampIndex(a, Len(s)) + 1, ClampIndex(b, Len(s)))

\* s[a:]
PySliceFrom(s, a) == PySlice(s, a, Len(s))

\* s[:b]
PySliceTo(s, b) == PySlice(s, 0, b)

\* s.find(lit, from): the least offset >= from where lit occurs, else -1
Find(s, lit, from) ==
    IF from > Len(s) THEN -1
    ELSE MinOr({j \in ClampIndex(from, Len(s))..(Len(s) - Len(lit)) :
                    StartsAt(s, j, lit)}, -1)

\* s.rfind(lit)
RFind(s, lit) ==
    MaxOr({j \in 0..(Len(s) - Len(lit)) : StartsAt(s, j, lit)}, -1)

\* s.replace(old, new) for a non-empty old: every occurrence, left to right,
\* without overlap
RECURSIVE ReplaceFrom(_, _, _, _)
ReplaceFrom(s, old, new, pos) ==
    IF pos + Len(old) > Len(s) THEN PySliceFrom(s, pos)
    ELSE IF StartsAt(s, pos, old)
         THEN new \o ReplaceFrom(s, old, new, pos + Len(old))
         ELSE <<s[pos + 1]>> \o ReplaceFrom(s, old, new, pos + 1)

Replace(s, old, new) == IF old = <<>> THEN s ELSE ReplaceFrom(s, old, new, 0)

\* s.replace(c, '_') for a set of characters
MaskChars(s, C) == [k \in 1..Len(s) |-> IF s[k] \in C THEN "_" ELSE s[k]]

\* '_' * n
Filler(n) == [k \in 1..n |-> "_"]

\* s.partition(lit): <<head, sep, tail>>
Partition(s, lit) ==
    LET at(i) == IF i = -1 THEN <<s, <<>>, <<>>>>
                 ELSE <<PySliceTo(s, i), lit, PySliceFrom(s, i + Len(lit))>>
    IN  at(Find(s, lit, 0))

\* s.rpartition(lit): <<head, sep, tail>>
RPartition(s, lit) ==
    LET at(i) == IF i = -1 THEN <<<<>>, <<>>, s>>
                 ELSE <<PySliceTo(s, i), lit, PySliceFrom(s, i + Len(lit))>>
    IN  at(RFind(s, lit))

\* the characters \s matches
Whitespace == {" ", "\t", "\n", "\r", "\f"}

\* s.strip(), s.rstrip()
RECURSIVE LStrip(_)
LStrip(s) == IF s # <<>> /\ Head(s) \in Whitespace THEN LStrip(Tail(s)) ELSE s
RECURSIVE RStrip(_)
RStrip(s) ==
    IF s # <<>> /\ s[Len(s)] \in Whitespace
    THEN RStrip(SubSeq(s, 1, Len(s) - 1)) ELSE s
Strip(s) == LStrip(RStrip(s))

\* the matches re.finditer yields: leftmost first, the next search starting
\* where the last match ended.  ends[i] is the end of the match that starts
\* at offset i, -1 when the pattern does not match there.
RECURSIVE FindIterFrom(_, _, _)
FindIterFrom(ends, n, pos) ==
    IF pos > n THEN <<>>
    ELSE IF ends[pos] < 0 THEN FindIterFrom(ends, n, pos + 1)
    ELSE <<<<pos, ends[pos]>>>> \o
         FindIterFrom(ends, n, IF ends[pos] > pos THEN ends[pos] ELSE pos + 1)

FindIter(ends, n) == FindIterFrom(ends, n, 0)

\* the least offset j >= i with s[j] in C, Len(s) when there is none
FirstIn(s, i, C) == MinOr({j \in i..(Len(s) - 1) : s[j + 1] \in C}, Len(s))

\* the least offset j >= i with s[j] not in C, Len(s) when there is none
FirstNotIn(s, i, C) ==
    MinOr({j \in i..(Len(s) - 1) : s[j + 1] \notin C}, Len(s))

----------------------------------------------------------------------------
(* The patterns of the tokenizer.  XMatch(s, i) is the end of the match of *)
(* pattern X that starts at offset i of s, -1 when X does not match there. *)

Braces == {"{", "}"}

\* the characters VALID_TITLE_CHARS_PATTERN excludes
InvalidTitleChars == {"|", "{", "}", "[", "]", "<", ">", "\n", "\t", "\r", "\f"}

\* the characters neither VALID_TITLE_CHARS_PATTERN nor \s matches
TitleStop == {"|", "{", "}", "[", "]", "<", ">"}

\* lit at offset j closes a match there, otherwise there is no match
ClosedBy(s, j, lit) == IF StartsAt(s, j, lit) THEN j + Len(lit) ELSE -1

\* COMMENT_REGEX  <!--.*?-->
COMMENT_REGEX(s, i) ==
    IF ~StartsAt(s, i, <<"<", "!", "-", "-">>) THEN -1
    ELSE ClosedBy(s, Find(s, <<"-", "-", ">">>, i + 4), <<"-", "-", ">">>)

NowikiOpen == <<"<", "n", "o", "w", "i", "k", "i">>
NowikiClose == <<"<", "/", "n", "o", "w", "i", "k", "i">>

\* NOWIKI_REGEX  <nowiki\s*.*?>.*?</nowiki\s*>
NOWIKI_REGEX(s, i) ==
    LET close(k) == IF k = -1 THEN -1
                    ELSE ClosedBy(s, FirstNotIn(s, k + 8, Whitespace), <<">">>)
        open(g) == IF g = -1 THEN -1
                   ELSE close(MinOr({k \in (g + 1)..(Len(s) - 1) :
                            /\ StartsAt(s, k, NowikiClose)
                            /\ At(s, FirstNotIn(s, k + 8, Whitespace)) = ">"},
                          -1))
    IN  IF ~StartsAt(s, i, NowikiOpen) THEN -1
        ELSE open(Find(s, <<">">>, i + 7))

\* WIKILINK_REGEX  \[\[ title (\]\]|\|[\S\s]*?\]\])
WIKILINK_REGEX(s, i) ==
    LET rest(q) == IF At(s, q) = "]" THEN ClosedBy(s, q, <<"]", "]">>)
                   ELSE IF At(s, q) # "|" THEN -1
                   ELSE ClosedBy(s, Find(s, <<"]", "]">>, q + 1), <<"]", "]">>)
    IN  IF ~StartsAt(s, i, <<"[", "[">>) THEN -1
        ELSE rest(FirstIn(s, i + 2, InvalidTitleChars))

\* TEMPLATE_PARAMETER_REGEX  \{\{\{[^{}]*?\}\}\}
TEMPLATE_PARAMETER_REGEX(s, i) ==
    IF ~StartsAt(s, i, <<"{", "{", "{">>) THEN -1
    ELSE ClosedBy(s, FirstIn(s, i + 3, Braces), <<"}", "}", "}">>)

\* PARSER_FUNCTION_REGEX  \{\{\s*#[^\s]*:[^{}]*?\}\}
\* [^\s]* is greedy: the colon taken is the last one of the whitespace-free
\* run after which a brace-free text and }} follow.
PARSER_FUNCTION_REGEX(s, i) ==
    LET colon(c) == IF c = -1 THEN -1
                    ELSE ClosedBy(s, FirstIn(s, c + 1, Braces), <<"}", "}">>)
        hash(h) ==
            IF At(s, h) # "#" THEN -1
            ELSE colon(MaxOr({c \in (h + 1)..(FirstIn(s, h + 1, Whitespace) - 1) :
                        /\ At(s, c) = ":"
                        /\ ClosedBy(s, FirstIn(s, c + 1, Braces), <<"}", "}">>) # -1},
                      -1))
    IN  IF ~StartsAt(s, i, <<"{", "{">>) THEN -1
        ELSE hash(FirstNotIn(s, i + 2, Whitespace))

\* TEMPLATE_PATTERN  \{\{\s* title \s*(\|[^{}]*?\}\}|\}\})
TEMPLATE_PATTERN(s, i) ==
    LET valid(name) == \A k \in 1..Len(name) : name[k] \notin InvalidTitleChars
        rest(q) == IF ~valid(Strip(PySlice(s, i + 2, q))) THEN -1
                   ELSE IF At(s, q) = "}" THEN ClosedBy(s, q, <<"}", "}">>)
                   ELSE IF At(s, q) # "|" THEN -1
                   ELSE ClosedBy(s, FirstIn(s, q + 1, Braces), <<"}", "}">>)
    IN  IF ~StartsAt(s, i, <<"{", "{">>) THEN -1
        ELSE rest(FirstIn(s, i + 2, TitleStop))

\* TEMPLATE_NOT_PARAM_REGEX  TEMPLATE_PATTERN(?!\}) | (?<!{)TEMPLATE_PATTERN
TEMPLATE_NOT_PARAM_REGEX(s, i) ==
    LET notparam(e) ==
            IF e >= 0 /\ (At(s, e) # "}" \/ At(s, i - 1) # "{") THEN e ELSE -1
    IN  notparam(TEMPLATE_PATTERN(s, i))

\* every match of a pattern in s, as finditer yields them
Matches(kind, s) ==
    FindIter([i \in 0..Len(s) |->
                CASE kind = "c" -> COMMENT_REGEX(s, i)
                  [] kind = "nw" -> NOWIKI_REGEX(s, i)
                  [] kind = "wl" -> WIKILINK_REGEX(s, i)
                  [] kind = "p" -> TEMPLATE_PARAMETER_REGEX(s, i)
                  [] kind = "pf" -> PARSER_FUNCTION_REGEX(s, i)
                  [] kind = "t" -> TEMPLATE_NOT_PARAM_REGEX(s, i)],
             Len(s))

----------------------------------------------------------------------------
(* _get_spans: the masking tokenizer                                       *)

\* MaskOf with the fill of the closing braces one character short
MaskOfShort(kind, group) ==
    CASE kind \in {"c", "nw"} -> Filler(Len(group))
      [] kind = "wl" -> MaskChars(group, Braces)
      [] kind = "p" -> Filler(3) \o PySlice(group, 3, -3) \o Filler(2)
      [] kind \in {"pf", "t"} -> Filler(2) \o PySlice(group, 2, -2) \o Filler(1)

\* what a matched group is replaced by
MaskOf(kind, group) ==
    CASE kind \in {"c", "nw"} -> Filler(Len(group))
      [] kind = "wl" -> MaskChars(group, Braces)
      [] kind = "p" -> Filler(3) \o PySlice(group, 3, -3) \o Filler(3)
      [] kind \in {"pf", "t"} -> Filler(2) \o PySlice(group, 2, -2) \o Filler(2)

\* the body of one `for match in X.finditer(string)` loop: the matches are
\* those of the string the loop started with (s0); each replaces every
\* occurrence of its text in the string as it is by then
RECURSIVE MaskMatches(_, _, _, _)
MaskMatches(kind, string, s0, matches) ==
    LET mask(group) == Replace(string, group, MaskOf(kind, group))
    IN  IF matches = <<>> THEN string
        ELSE MaskMatches(kind,
                         mask(PySlice(s0, Head(matches)[1], Head(matches)[2])),
                         s0, Tail(matches))

\* one finditer loop over the working string, its spans appended to kind's list
Pass(kind, st) ==
    LET loop(ms) ==
            [st EXCEPT !.string = MaskMatches(kind, st.string, st.string, ms),
                       ![kind] = st[kind] \o ms,
                       !.match = st.match \/ ms # <<>>,
                       !.loop = ms # <<>>]
    IN  loop(Matches(kind, st.string))

\* re.sub(r'(?<!{){(?=[^{])', '_', string)
LoneOpen(s) ==
    [k \in 1..Len(s) |->
        IF s[k] = "{" /\ At(s, k - 2) # "{" /\ At(s, k) \notin {"{", ""}
        THEN "_" ELSE s[k]]

\* re.sub(r'(?<!})}(?=[^}])', '_', string)
LoneClose(s) ==
    [k \in 1..Len(s) |->
        IF s[k] = "}" /\ At(s, k - 2) # "}" /\ At(s, k) \notin {"}", ""}
        THEN "_" ELSE s[k]]

\* openers after the last closer
StrayOpen(s) ==
    LET join(parts) == parts[1] \o parts[2] \o MaskChars(parts[3], {"{"})
    IN  join(RPartition(s, <<"}">>))

\* closers before the first opener
StrayClose(s) ==
    LET join(parts) == MaskChars(parts[1], {"}"}) \o parts[2] \o parts[3]
    IN  join(Partition(s, <<"{">>))

\* the head of the outer `while True` loop
NeutralizeBraces(st) ==
    [st EXCEPT !.string = StrayClose(StrayOpen(LoneClose(LoneOpen(st.string)))),
               !.match = FALSE]

\* the locals of _get_spans on entry
TokInit(string) ==
    [string |-> string, p |-> <<>>, pf |-> <<>>, t |-> <<>>, wl |-> <<>>,
     c |-> <<>>, nw |-> <<>>, match |-> FALSE, loop |-> FALSE]

\* the places of _get_spans: the three single loops, the head of the outer
\* loop, its three inner loops, its exit test, the return
TokPlaces == <<"c", "nw", "wl", "braces", "p", "pf", "t", "check", "done">>

\* the place after the loop at: an inner loop runs again while it matched
AfterLoop(at, matched) ==
    IF at \in {"p", "pf", "t"} /\ matched THEN at
    ELSE TokPlaces[1 + CHOOSE k \in 1..8 : TokPlaces[k] = at]

\* one step of _get_spans from the place at, as <<locals, next place>>
TokStep(st, at) ==
    LET looped(n) == <<n, AfterLoop(at, n.loop)>>
    IN  CASE at = "braces" -> <<NeutralizeBraces(st), "p">>
          [] at = "check" -> <<st, IF st.match THEN "braces" ELSE "done">>
          [] OTHER -> looped(Pass(at, st))

RECURSIVE TokRun(_, _)
TokRun(st, at) ==
    LET go(n) == TokRun(n[1], n[2])
    IN  IF at = "done" THEN st ELSE go(TokStep(st, at))

TokCategories == {"p", "pf", "t", "wl", "c", "nw"}

\* the dictionary _get_spans returns
get_spans(string) ==
    LET table(st) == [k \in TokCategories |-> st[k]]
    IN  table(TokRun(TokInit(string), "c"))

----------------------------------------------------------------------------
(* The document: d.buf is _lststr[0], d.spans is _spans.  A view is        *)
(* [cat, idx]: the category of its span and its _index in that category;   *)
(* the WikiText object itself is the view Root, whose span is the whole    *)
(* text.                                                                   *)

Root == [cat |-> "root", idx |-> -1]

View(cat, idx) == [cat |-> cat, idx |-> idx]

\* WikiText.__init__
NewDocument(string) == [buf |-> string, spans |-> get_spans(string)]

\* _get_span of each class
get_span(d, v) ==
    IF v = Root THEN <<0, Len(d.buf)>> ELSE d.spans[v.cat][v.idx + 1]

\* the string getter
string(d, v) ==
    LET slice(span) == PySlice(d.buf, span[1], span[2])
    IN  slice(get_span(d, v))

\* the list of a category, created empty when the dictionary lacks it
SpansOf(d, cat) == IF cat \in DOMAIN d.spans THEN d.spans[cat] ELSE <<>>

\* spans[cat] = [] when cat is not in spans
WithCategory(d, cat) ==
    IF cat \in DOMAIN d.spans THEN d
    ELSE [d EXCEPT !.spans = [k \in DOMAIN d.spans \cup {cat} |->
                                IF k = cat THEN <<>> ELSE d.spans[k]]]

\* ShrunkSpan with a span that lies within the removed part treated as one
\* that reaches past it
ShrunkSpanPast(sp, rmstart, rmend) ==
    LET spanstart == sp[1]
        spanend == sp[2]
        rmlength == rmend - rmstart
    IN  IF spanend <= rmstart THEN sp
        ELSE IF rmend <= spanstart
             THEN <<spanstart - rmlength, spanend - rmlength>>
        ELSE IF rmstart < spanstart THEN <<rmstart, spanend - rmlength>>
        ELSE <<spanstart, spanend - rmlength>>

\* one span after _shrink_span_update(rmstart, rmend)
ShrunkSpan(sp, rmstart, rmend) ==
    LET spanstart == sp[1]
        spanend == sp[2]
        rmlength == rmend - rmstart
    IN  IF spanend <= rmstart THEN sp
        ELSE IF rmend <= spanstart
             THEN <<spanstart - rmlength, spanend - rmlength>>
        ELSE IF rmstart < spanstart
             THEN IF rmend <= spanend THEN <<rmstart, spanend - rmlength>>
                  ELSE <<rmstart, rmstart>>
        ELSE IF rmend <= spanend THEN <<spanstart, spanend - rmlength>>
             ELSE <<spanstart, rmstart>>

\* _shrink_span_update
shrink_span_update(table, rmstart, rmend) ==
    [k \in DOMAIN table |->
        [i \in 1..Len(table[k]) |-> ShrunkSpan(table[k][i], rmstart, rmend)]]

\* ExtendedSpan with a span that starts at astart treated as one that
\* starts after it
ExtendedSpanFrom(sp, astart, alength) ==
    IF astart <= sp[1] THEN <<sp[1] + alength, sp[2] + alength>>
    ELSE IF sp[1] <= astart /\ astart < sp[2] THEN <<sp[1], sp[2] + alength>>
    ELSE sp

\* one span after _extend_span_update(astart, alength)
ExtendedSpan(sp, astart, alength) ==
    IF astart < sp[1] THEN <<sp[1] + alength, sp[2] + alength>>
    ELSE IF sp[1] <= astart /\ astart < sp[2] THEN <<sp[1], sp[2] + alength>>
    ELSE sp

\* _extend_span_update
extend_span_update(table, astart, alength) ==
    [k \in DOMAIN table |->
        [i \in 1..Len(table[k]) |-> ExtendedSpan(table[k][i], astart, alength)]]

\* the string setter
set_string(d, v, newstring) ==
    LET rebase(oldstart, oldlength, newlength) ==
            IF newlength > oldlength
            THEN extend_span_update(d.spans, oldstart, newlength - oldlength)
            ELSE IF newlength < oldlength
            THEN shrink_span_update(d.spans, oldstart,
                                    oldstart + oldlength - newlength)
            ELSE d.spans
        assign(span) ==
            [buf |-> PySliceTo(d.buf, span[1]) \o newstring \o
                     PySliceFrom(d.buf, span[2]),
             spans |-> rebase(span[1], Len(string(d, v)), Len(newstring))]
    IN  assign(get_span(d, v))

\* the length delta the string setter computes
LengthDelta(d, v, newstring) == Len(newstring) - Len(string(d, v))

\* the categories _in_subspans_factory looks into, in its order
SubspanCategories == <<"t", "p", "pf", "wl", "c", "nw">>

\* in_spans that looks into the categories of braces only, not into the
\* wikilinks, comments and nowiki spans
in_spans_of_braces(d, v, index) ==
    \E n \in 1..3 :
        \E i \in 1..Len(d.spans[SubspanCategories[n]]) :
            LET span == d.spans[SubspanCategories[n]][i]
            IN  /\ get_span(d, v)[1] < span[1]
                /\ span[2] < get_span(d, v)[2]
                /\ span[1] <= index
                /\ index < span[2]

\* in_spans(index) of _in_subspans_factory for the view v
in_spans(d, v, index) ==
    \E n \in 1..Len(SubspanCategories) :
        \E i \in 1..Len(d.spans[SubspanCategories[n]]) :
            LET span == d.spans[SubspanCategories[n]][i]
            IN  /\ get_span(d, v)[1] < span[1]
                /\ span[2] < get_span(d, v)[2]
                /\ span[1] <= index
                /\ index < span[2]

\* the inner `while in_spans(spanstart + index)` of the splitters
RECURSIVE SkipSubspans(_, _, _, _, _)
SkipSubspans(d, v, str, char, index) ==
    IF in_spans(d, v, get_span(d, v)[1] + index)
    THEN SkipSubspans(d, v, str, char, Find(str, char, index + 1))
    ELSE index

\* the `while True` loop of _not_in_subspans_splitspans from findstart on
RECURSIVE SplitSpansFrom(_, _, _, _, _)
SplitSpansFrom(d, v, str, char, findstart) ==
    LET spanstart == get_span(d, v)[1]
        spanend == get_span(d, v)[2]
        split(index) ==
            IF index = -1 THEN <<<<spanstart + findstart, spanend>>>>
            ELSE <<<<spanstart + findstart, spanstart + index>>>> \o
                 SplitSpansFrom(d, v, str, char, index + 1)
    IN  split(SkipSubspans(d, v, str, char, Find(str, char, findstart)))

\* _not_in_subspans_splitspans
not_in_subspans_splitspans(d, v, char) ==
    SplitSpansFrom(d, v, string(d, v), char, 0)

\* list.index(x), 0-based
IndexOf(list, x) == Min({i \in 1..Len(list) : list[i] = x}) - 1

\* `if x not in list: list.append(x)`
AppendNew(list, x) ==
    IF \E i \in 1..Len(list) : list[i] = x THEN list ELSE Append(list, x)

\* the loops that register argument spans: each span is appended to the
\* category unless it is there, and the view on its slot is returned.
\* The value is <<list of the category, views>>.
RECURSIVE RegisterSpans(_, _, _, _)
RegisterSpans(cat, list, aspans, views) ==
    LET next(l2) ==
            RegisterSpans(cat, l2, Tail(aspans),
                          Append(views, View(cat, IndexOf(l2, Head(aspans)))))
    IN  IF aspans = <<>> THEN <<list, views>>
        ELSE next(AppendNew(list, Head(aspans)))

\* barsplits[-1] = (barsplits[-1][0], barsplits[-1][1] - 2)
CutClosing(barsplits) ==
    [barsplits EXCEPT ![Len(barsplits)] = <<@[1], @[2] - 2>>]

\* aspan = (aspan[0] - 1, aspan[1]) for every aspan
WithBar(barsplits) ==
    [i \in 1..Len(barsplits) |-> <<barsplits[i][1] - 1, barsplits[i][2]>>]

\* a query's value: the document after it and the views it returns
Returned(d, cat, reg) ==
    [doc |-> [d EXCEPT !.spans[cat] = reg[1]], views |-> reg[2]]

\* the registration of aspans in the category typeindex, created if missing
Registered(d, typeindex, aspans) ==
    Returned(WithCategory(d, typeindex), typeindex,
             RegisterSpans(typeindex, SpansOf(d, typeindex), aspans, <<>>))

\* Template.arguments
Template_arguments(d, v) ==
    LET aspans(barsplits) ==
            IF barsplits = <<>> THEN <<>> ELSE WithBar(CutClosing(barsplits))
    IN  Registered(d, "ta" \o ToString(v.idx),
                   aspans(Tail(not_in_subspans_splitspans(d, v, <<"|">>))))

\* ParserFunction.arguments
ParserFunction_arguments(d, v) ==
    LET aspans(barsplits) ==
            <<<<Head(barsplits)[1] + Find(string(d, v), <<":">>, 0),
                Head(barsplits)[2]>>>> \o WithBar(Tail(barsplits))
    IN  Registered(d, "pfa" \o ToString(v.idx),
                   aspans(CutClosing(not_in_subspans_splitspans(d, v, <<"|">>))))

\* _gen_subspan_indices: the views of category cat inside the view v
\* (the span of the WikiText object itself included, that of a node not)
gen_subspan_indices(d, v, cat) ==
    LET inside(s) == IF v = Root
                     THEN get_span(d, v)[1] <= s[1] /\ s[2] <= get_span(d, v)[2]
                     ELSE get_span(d, v)[1] < s[1] /\ s[2] < get_span(d, v)[2]
    IN  SelectSeq([i \in 1..Len(d.spans[cat]) |-> View(cat, i - 1)],
                  LAMBDA w : inside(get_span(d, w)))

----------------------------------------------------------------------------
(* Sections                                                                *)

\* the line break or end of text that ends the line of offset i
LineEnd(s, i) == FirstIn(s, i, {"\n"})

\* SECTION_HEADER_REGEX  (?:(?<=\n)|(?<=^))=[^\n]+?= *(?:\n|$)
\* a line that starts with =, and ends with = and spaces, with at least one
\* character between the two; the match takes the line break
SECTION_HEADER_REGEX(s, i) ==
    LET closed(e, z) ==
            IF At(s, z) = "=" /\ z >= i + 2
            THEN IF e < Len(s) THEN e + 1 ELSE e
            ELSE -1
        line(e) == closed(e, MaxOr({j \in i..(e - 1) : s[j + 1] # " "}, i))
    IN  IF At(s, i) = "=" /\ (i = 0 \/ At(s, i - 1) = "\n")
        THEN line(LineEnd(s, i))
        ELSE -1

\* where $ matches: at the end, and before a line break that ends the text
AtDollar(s, j) == j = Len(s) \/ (j = Len(s) - 1 /\ At(s, j) = "\n")

\* LEAD_SECTION_REGEX.match  ^.*?(?=SECTION_HEADER_REGEX): the end of the
\* lead section, -1 when the text has no header line (match returns None)
LEAD_SECTION_REGEX(s) ==
    MinOr({j \in 0..Len(s) : SECTION_HEADER_REGEX(s, j) >= 0}, -1)

\* SECTION_REGEX  header .*?(?=header|$)
SECTION_REGEX(s, i) ==
    LET body(h) ==
            IF h < 0 THEN -1
            ELSE Min({j \in h..Len(s) :
                        SECTION_HEADER_REGEX(s, j) >= 0 \/ AtDollar(s, j)})
    IN  body(SECTION_HEADER_REGEX(s, i))

\* the greatest number of = SECTION_LEVEL_TITLE may take for group 1
MaxLevel == 6

\* SECTION_LEVEL_TITLE  ^(={1,6})([^\n]+?)\1( *(?:\n|$)) on s with k equal
\* signs in group 1: the length of the shortest title that matches, -1 if none
TitleLength(s, k) ==
    LET title(e) ==
            MinOr({n \in 1..(e - 2 * k) :
                     /\ \A j \in (k + n)..(k + n + k - 1) : At(s, j) = "="
                     /\ FirstNotIn(s, k + n + k, {" "}) = e}, -1)
    IN  IF \E j \in 0..(k - 1) : At(s, j) # "=" THEN -1
        ELSE title(LineEnd(s, 0))

\* the level of a match whose group 1 takes as few equal signs as it can
LevelOfLeast(s) == MinOr({k \in 1..MaxLevel : TitleLength(s, k) >= 0}, 0)

\* len(m.group(1)) of SECTION_LEVEL_TITLE.match(s), 0 when there is no match:
\* ={1,6} is greedy, so the greatest count that matches
LevelOf(s) == MaxOr({k \in 1..MaxLevel : TitleLength(s, k) >= 0}, 0)

\* Section.level
Section_level(d, v) == LevelOf(string(d, v))

\* Section.title
Section_title(d, v) ==
    LET title(level, line) ==
            IF level = 0 THEN <<>> ELSE PySlice(line, level, -level)
    IN  title(Section_level(d, v),
              RStrip(Partition(string(d, v), <<"\n">>)[1]))

\* Section.contents
Section_contents(d, v) ==
    IF Section_level(d, v) = 0 THEN string(d, v)
    ELSE Partition(string(d, v), <<"\n">>)[3]

\* the matches of SECTION_REGEX.finditer
SectionMatches(s) == FindIter([i \in 0..Len(s) |-> SECTION_REGEX(s, i)], Len(s))

\* the span moved to the coordinates of the whole text
Shifted(mspan, selfstart) == <<mspan[1] + selfstart, mspan[2] + selfstart>>

\* the inner loop of sections: the sections found so far (their slots, the
\* lead section left out) are scanned in order from the k-th; each of a
\* level below the latest section's gets the latest section's end, and the
\* scan stops at the first that is not
RECURSIVE ExtendParents(_, _, _, _, _)
ExtendParents(d, slots, k, latest_level, mend) ==
    IF k > Len(slots) THEN d
    ELSE IF Section_level(d, View("s", slots[k])) < latest_level
    THEN ExtendParents([d EXCEPT !.spans["s"][slots[k] + 1] = <<@[1], mend>>],
                       slots, k + 1, latest_level, mend)
    ELSE d

\* the `for m in SECTION_REGEX.finditer(selfstring)` loop; slots are the
\* _index of the sections appended so far, the lead section first
RECURSIVE SectionsLoop(_, _, _, _)
SectionsLoop(d, selfstart, matches, slots) ==
    LET extend(d1, mspan, found) ==
            SectionsLoop(ExtendParents(d1, Tail(found), 1,
                                       Section_level(d1, View("s", found[Len(found)])),
                                       mspan[2]),
                         selfstart, Tail(matches), found)
        index(d1, mspan) ==
            extend(d1, mspan, Append(slots, IndexOf(d1.spans["s"], mspan)))
        append(mspan) ==
            index([d EXCEPT !.spans["s"] = AppendNew(@, mspan)], mspan)
    IN  IF matches = <<>> THEN [doc |-> d, slots |-> slots]
        ELSE append(Shifted(Head(matches), selfstart))

\* WikiText.sections: the document after the call, the views returned and
\* the exception raised
sections(d, v) ==
    LET selfstart == get_span(d, v)[1]
        views(r) ==
            [doc |-> r.doc,
             views |-> [i \in 1..Len(r.slots) |-> View("s", r.slots[i])],
             err |-> "none"]
        loop(d2, mspan, selfstring) ==
            views(SectionsLoop(d2, selfstart, SectionMatches(selfstring),
                               <<IndexOf(d2.spans["s"], mspan)>>))
        append(d1, mspan, selfstring) ==
            loop([d1 EXCEPT !.spans["s"] = AppendNew(@, mspan)], mspan, selfstring)
        lead(d1, end, selfstring) ==
            IF end = -1
            THEN [doc |-> d1, views |-> <<>>, err |-> "AttributeError"]
            ELSE append(d1, Shifted(<<0, end>>, selfstart), selfstring)
        start(selfstring) ==
            lead(WithCategory(d, "s"), LEAD_SECTION_REGEX(selfstring), selfstring)
    IN  start(string(d, v))

----------------------------------------------------------------------------
(* External links                                                          *)

\* VALID_EXTLINK_SCHEMES_PATTERN, in its order
Schemes ==
    <<
       <<"b", "i", "t", "c", "o", "i", "n", ":">>,
       <<"f", "t", "p", ":", "/", "/">>,
       <<"f", "t", "p", "s", ":", "/", "/">>,
       <<"g", "e", "o", ":">>,
       <<"g", "i", "t", ":", "/", "/">>,
       <<"g", "o", "p", "h", "e", "r", ":", "/", "/">>,
       <<"h", "t", "t", "p", ":", "/", "/">>,
       <<"h", "t", "t", "p", "s", ":", "/", "/">>,
       <<"i", "r", "c", ":", "/", "/">>,
       <<"i", "r", "c", "s", ":", "/", "/">>,
       <<"m", "a", "g", "n", "e", "t", ":">>,
       <<"m", "a", "i", "l", "t", "o", ":">>,
       <<"m", "m", "s", ":", "/", "/">>,
       <<"n", "e", "w", "s", ":">>,
       <<"n", "n", "t", "p", ":", "/", "/">>,
       <<"r", "e", "d", "i", "s", ":", "/", "/">>,
       <<"s", "f", "t", "p", ":", "/", "/">>,
       <<"s", "i", "p", ":">>,
       <<"s", "i", "p", "s", ":">>,
       <<"s", "m", "s", ":">>,
       <<"s", "s", "h", ":", "/", "/">>,
       <<"s", "v", "n", ":", "/", "/">>,
       <<"t", "e", "l", ":">>,
       <<"t", "e", "l", "n", "e", "t", ":", "/", "/">>,
       <<"u", "r", "n", ":">>,
       <<"w", "o", "r", "l", "d", "w", "i", "n", "d", ":", "/", "/">>,
       <<"x", "m", "p", "p", ":">>,
       <<"/", "/">>
    >>

\* what re.IGNORECASE compares
Lower(c) ==
    CASE c = "" -> ""
      [] c = "A" -> "a"
      [] c = "B" -> "b"
      [] c = "C" -> "c"
      [] c = "D" -> "d"
      [] c = "E" -> "e"
      [] c = "F" -> "f"
      [] c = "G" -> "g"
      [] c = "H" -> "h"
      [] c = "I" -> "i"
      [] c = "J" -> "j"
      [] c = "K" -> "k"
      [] c = "L" -> "l"
      [] c = "M" -> "m"
      [] c = "N" -> "n"
      [] c = "O" -> "o"
      [] c = "P" -> "p"
      [] c = "Q" -> "q"
      [] c = "R" -> "r"
      [] c = "S" -> "s"
      [] c = "T" -> "t"
      [] c = "U" -> "u"
      [] c = "V" -> "v"
      [] c = "W" -> "w"
      [] c = "X" -> "x"
      [] c = "Y" -> "y"
      [] c = "Z" -> "z"
      [] OTHER -> c

\* the characters VALID_EXTLINK_CHARS_PATTERN excludes (the grave accent,
\* which no text of the model holds, cannot be written in a string here)
InvalidExtlinkChars ==
    {" ", "\\", "^", "#", "<", ">", "[", "]", "\"", "\t", "\n", "{", "|", "}"}

\* scheme.match(s, i), ignoring case
SchemeAt(s, i, scheme) ==
    /\ i + Len(scheme) <= Len(s)
    /\ \A k \in 1..Len(scheme) : Lower(s[i + k]) = scheme[k]

\* the end of the scheme that starts at i, -1 if none does; bare links do
\* not take the last scheme, //
SchemeEnd(s, i, bare) ==
    LET end(n) == IF n = 0 THEN -1 ELSE i + Len(Schemes[n])
    IN  end(MinOr({n \in 1..(Len(Schemes) - (IF bare THEN 1 ELSE 0)) :
                     SchemeAt(s, i, Schemes[n])}, 0))

\* BARE_EXTERNALLINK_REGEX  scheme [valid chars]*
BARE_EXTERNALLINK_REGEX(s, i) ==
    LET chars(e) == IF e < 0 THEN -1 ELSE FirstIn(s, e, InvalidExtlinkChars)
    IN  chars(SchemeEnd(s, i, TRUE))

\* BRACKET_EXTERNALLINK_REGEX  \[ scheme [valid chars]* *[^\]\n]*\]
BRACKET_EXTERNALLINK_REGEX(s, i) ==
    LET text(e) == IF e < 0 THEN -1
                   ELSE ClosedBy(s, FirstIn(s, e, {"]", "\n"}), <<"]">>)
    IN  IF At(s, i) # "[" THEN -1 ELSE text(SchemeEnd(s, i + 1, FALSE))

\* EXTERNALLINK_REGEX  (bare|bracket)
EXTERNALLINK_REGEX(s, i) ==
    LET bare(e) == IF e >= 0 THEN e ELSE BRACKET_EXTERNALLINK_REGEX(s, i)
    IN  bare(BARE_EXTERNALLINK_REGEX(s, i))

\* every mspan of the loop of external_links, in the whole text's coordinates
ExternalLinkSpans(d, v) ==
    LET shifted(ms) == [i \in 1..Len(ms) |-> Shifted(ms[i], get_span(d, v)[1])]
        matches(str) ==
            FindIter([i \in 0..Len(str) |-> EXTERNALLINK_REGEX(str, i)], Len(str))
    IN  shifted(matches(string(d, v)))

\* WikiText.external_links
external_links(d, v) == Registered(d, "el", ExternalLinkSpans(d, v))

----------------------------------------------------------------------------
(* The accessors and setters of the node classes.  A setter's value is     *)
(* [doc, err]: the document after the call and the exception raised.       *)

Ok(d) == [doc |-> d, err |-> "none"]

Raised(d, e) == [doc |-> d, err |-> e]

Bar == <<"|">>
Equal == <<"=">>

\* n copies of text
RECURSIVE Repeat(_, _)
Repeat(text, n) == IF n <= 0 THEN <<>> ELSE text \o Repeat(text, n - 1)

\* str(n) for n >= 0
RECURSIVE Str(_)
Str(n) ==
    LET digit == <<"0", "1", "2", "3", "4", "5", "6", "7", "8", "9">>
    IN  IF n < 10 THEN <<digit[n + 1]>>
        ELSE Str(n \div 10) \o <<digit[(n % 10) + 1]>>

\* Template.name
Template_name(d, v) == Partition(PySlice(string(d, v), 2, -2), Bar)[1]

\* Template.name setter
Template_set_name(d, v, newname) ==
    LET named(parts) ==
            IF parts[2] # <<>>
            THEN <<"{", "{">> \o newname \o Bar \o parts[3] \o <<"}", "}">>
            ELSE <<"{", "{">> \o newname \o <<"}", "}">>
    IN  Ok(set_string(d, v,
                      named(Partition(PySlice(string(d, v), 2, -2), Bar))))

\* Parameter.name, Parameter.pipe, Parameter.default
Parameter_name(d, v) == Partition(PySlice(string(d, v), 3, -3), Bar)[1]
Parameter_pipe(d, v) == Partition(PySlice(string(d, v), 3, -3), Bar)[2]
Parameter_default(d, v) == Partition(PySlice(string(d, v), 3, -3), Bar)[3]

\* Parameter.name setter
Parameter_set_name(d, v, newname) ==
    Ok(set_string(d, v,
        IF Parameter_pipe(d, v) # <<>>
        THEN <<"{", "{", "{">> \o newname \o Bar \o Parameter_default(d, v)
             \o <<"}", "}", "}">>
        ELSE <<"{", "{", "{">> \o newname \o <<"}", "}", "}">>))

\* Parameter.default setter
Parameter_set_default(d, v, newdefault) ==
    Ok(set_string(d, v,
        <<"{", "{", "{">> \o Parameter_name(d, v) \o Bar \o newdefault
        \o <<"}", "}", "}">>))

\* ParserFunction.name
ParserFunction_name(d, v) ==
    Partition(Partition(string(d, v), <<":">>)[1], <<"#">>)[3]

\* WikiLink.target
WikiLink_target(d, v) == Partition(PySlice(string(d, v), 2, -2), Bar)[1]

\* WikiLink.target setter
WikiLink_set_target(d, v, newtarget) ==
    LET linked(parts) ==
            IF parts[2] # <<>>
            THEN <<"[", "[">> \o newtarget \o Bar \o parts[3] \o <<"]", "]">>
            ELSE <<"[", "[">> \o newtarget \o <<"]", "]">>
    IN  Ok(set_string(d, v,
                      linked(Partition(PySlice(string(d, v), 2, -2), Bar))))

\* WikiLink.text setter
WikiLink_set_text(d, v, newtext) ==
    Ok(set_string(d, v,
        <<"[", "[">> \o WikiLink_target(d, v) \o Bar \o newtext \o <<"]", "]">>))

\* Comment.contents
Comment_contents(d, v) == PySlice(string(d, v), 4, -3)

\* ExternalLink.in_brackets
ExternalLink_in_brackets(d, v) == StartsAt(string(d, v), 0, <<"[">>)

\* ExternalLink.url
ExternalLink_url(d, v) ==
    IF ExternalLink_in_brackets(d, v)
    THEN Partition(PySlice(string(d, v), 1, -1), <<" ">>)[1]
    ELSE string(d, v)

\* ExternalLink.text
ExternalLink_text(d, v) ==
    IF ExternalLink_in_brackets(d, v)
    THEN Partition(PySlice(string(d, v), 1, -1), <<" ">>)[3]
    ELSE string(d, v)

\* ExternalLink.url setter
ExternalLink_set_url(d, v, newurl) ==
    LET bracketed(text) ==
            IF text # <<>> THEN <<"[">> \o newurl \o <<" ">> \o text \o <<"]">>
            ELSE <<"[">> \o newurl \o <<"]">>
    IN  Ok(set_string(d, v,
            IF ExternalLink_in_brackets(d, v)
            THEN bracketed(ExternalLink_text(d, v))
            ELSE newurl))

\* ExternalLink.text setter
ExternalLink_set_text(d, v, newtext) ==
    Ok(set_string(d, v,
        <<"[">> \o ExternalLink_url(d, v) \o <<" ">> \o newtext \o <<"]">>))

\* the position Argument.name counts: 1 plus the non-empty spans without =
\* among the first idx spans of the argument's category
PositionOf(d, v) ==
    1 + Cardinality({i \in 1..Len(d.spans[v.cat]) :
            /\ i <= v.idx
            /\ d.spans[v.cat][i][1] < d.spans[v.cat][i][2]
            /\ Find(PySlice(d.buf, d.spans[v.cat][i][1], d.spans[v.cat][i][2]),
                    Equal, 0) = -1})

\* Argument.name
Argument_name(d, v) ==
    LET name(parts) ==
            IF parts[2] # <<>> THEN PySliceFrom(parts[1], 1)
            ELSE Str(PositionOf(d, v))
    IN  name(Partition(string(d, v), Equal))

\* Argument.equal_sign
Argument_equal_sign(d, v) == Partition(string(d, v), Equal)[2]

\* Argument.value
Argument_value(d, v) ==
    LET value(parts) ==
            IF parts[2] # <<>> THEN parts[3] ELSE PySliceFrom(parts[1], 1)
    IN  value(Partition(string(d, v), Equal))

\* Argument.name setter
Argument_set_name(d, v, newname) ==
    Ok(set_string(d, v, Bar \o newname \o Equal \o Argument_value(d, v)))

\* Argument.value setter; pipename[0] of an empty pipename raises IndexError
Argument_set_value(d, v, newvalue) ==
    LET assign(parts) ==
            IF parts[2] # <<>>
            THEN Ok(set_string(d, v, parts[1] \o Equal \o newvalue))
            ELSE IF parts[1] = <<>> THEN Raised(d, "IndexError")
            ELSE Ok(set_string(d, v, <<parts[1][1]>> \o newvalue))
    IN  assign(Partition(string(d, v), Equal))

\* Section.level setter
Section_set_level(d, v, newlevel) ==
    Ok(set_string(d, v,
        Repeat(Equal, newlevel) \o Section_title(d, v) \o Repeat(Equal, newlevel)
        \o Section_contents(d, v)))

\* the Section.title setter without its test of the level
Section_set_title_unchecked(d, v, newtitle) ==
    Ok(set_string(d, v,
        Repeat(Equal, Section_level(d, v)) \o newtitle
        \o Repeat(Equal, Section_level(d, v)) \o <<"\n">> \o Section_contents(d, v)))

\* Section.title setter
Section_set_title(d, v, newtitle) ==
    LET assign(level) ==
            IF level = 0 THEN Raised(d, "RuntimeError")
            ELSE Ok(set_string(d, v,
                    Repeat(Equal, level) \o newtitle \o Repeat(Equal, level)
                    \o <<"\n">> \o Section_contents(d, v)))
    IN  assign(Section_level(d, v))

\* Section.contents setter
Section_set_contents(d, v, newcontents) ==
    Ok(set_string(d, v,
        IF Section_level(d, v) = 0 THEN newcontents
        ELSE Partition(string(d, v), <<"\n">>)[1] \o <<"\n">> \o newcontents))

\* name in names
Member(list, x) == \E i \in 1..Len(list) : list[i] = x

\* the loop of rm_first_of_dup_args over the arguments from the k-th down
RECURSIVE RemoveFirstOfDups(_, _, _, _)
RemoveFirstOfDups(d, args, k, names) ==
    LET seen(name) ==
            IF Member(names, name)
            THEN RemoveFirstOfDups(set_string(d, args[k], <<>>), args, k - 1, names)
            ELSE RemoveFirstOfDups(d, args, k - 1, Append(names, name))
    IN  IF k < 1 THEN d ELSE seen(Strip(Argument_name(d, args[k])))

\* Template.rm_first_of_dup_args
rm_first_of_dup_args(d, v) ==
    LET remove(r) == Ok(RemoveFirstOfDups(r.doc, r.views, Len(r.views), <<>>))
    IN  remove(Template_arguments(d, v))

\* the loop of rm_dup_args_safe over the arguments from the k-th down;
\* seen is name_args_vals: for every name its name_args and name_vals, which
\* holds the values as <<"val", value>> and the Argument objects the loop
\* appends to it as <<"arg", view>>, equal to no string.  KeyOf is the
\* position of a name among the keys, IndexIn is list.index(x) + 1 (both 0
\* when there is none), Popped is list.pop(i - 1)
RECURSIVE RemoveDupsSafe(_, _, _, _, _)
RemoveDupsSafe(d, args, k, seen, tag) ==
    LET KeyOf(name) ==
            IF \E n \in 1..Len(seen) : seen[n].name = name
            THEN CHOOSE n \in 1..Len(seen) : seen[n].name = name
            ELSE 0
        IndexIn(list, x) ==
            IF \E i \in 1..Len(list) : list[i] = <<"val", x>>
            THEN CHOOSE i \in 1..Len(list) :
                    /\ list[i] = <<"val", x>>
                    /\ \A j \in 1..(i - 1) : list[j] # <<"val", x>>
            ELSE 0
        Popped(list, i) == SubSeq(list, 1, i - 1) \o SubSeq(list, i + 1, Len(list))
        next(o, seen1) ==
            IF o.err # "none" THEN o
            ELSE RemoveDupsSafe(o.doc, args, k - 1, seen1, tag)
        pop(n, i) ==
            IF i > Len(seen[n].args) THEN next(Raised(d, "IndexError"), seen)
            ELSE next(Ok(set_string(d, seen[n].args[i], <<>>)),
                      [seen EXCEPT ![n].args = Popped(@, i),
                                   ![n].vals = Popped(@, i)])
        keep(n, val) ==
            next(IF tag = <<>> THEN Ok(d)
                 ELSE Argument_set_value(d, args[k],
                                         Argument_value(d, args[k]) \o tag),
                 [seen EXCEPT ![n].vals = @ \o <<<<"arg", args[k]>>, <<"val", val>>>>])
        step(n, name, val) ==
            IF n = 0
            THEN next(Ok(d), Append(seen, [name |-> name, args |-> <<args[k]>>,
                                           vals |-> <<<<"val", val>>>>]))
            ELSE IF val = <<>> THEN next(Ok(set_string(d, args[k], <<>>)), seen)
            ELSE IF IndexIn(seen[n].vals, val) # 0
            THEN next(Ok(set_string(d, args[k], <<>>)), seen)
            ELSE IF IndexIn(seen[n].vals, <<>>) # 0
            THEN pop(n, IndexIn(seen[n].vals, <<>>))
            ELSE keep(n, val)
        named(name) ==
            step(KeyOf(name), name,
                 IF Argument_equal_sign(d, args[k]) # <<>>
                 THEN Strip(Argument_value(d, args[k]))
                 ELSE Argument_value(d, args[k]))
    IN  IF k < 1 THEN Ok(d) ELSE named(Strip(Argument_name(d, args[k])))

\* Template.rm_dup_args_safe
rm_dup_args_safe(d, v, tag) ==
    LET remove(r) == RemoveDupsSafe(r.doc, r.views, Len(r.views), <<>>, tag)
    IN  remove(Template_arguments(d, v))

----------------------------------------------------------------------------
(* Calls.  A call is [op, view, arg]; its outcome is [doc, views, err]:    *)
(* the document after it, the views it returns, the exception it raises.   *)

\* the class of the views of a category
ClassOf(cat) ==
    CASE cat = "root" -> "WikiText"
      [] cat = "t" -> "Template"
      [] cat = "p" -> "Parameter"
      [] cat = "pf" -> "ParserFunction"
      [] cat = "wl" -> "WikiLink"
      [] cat = "c" -> "Comment"
      [] cat = "el" -> "ExternalLink"
      [] cat = "s" -> "Section"
      [] cat = "nw" -> "none"
      [] OTHER -> "Argument"

\* the category a listing property reads
ListedCategory(op) ==
    CASE op = "parameters" -> "p"
      [] op = "parser_functions" -> "pf"
      [] op = "templates" -> "t"
      [] op = "wikilinks" -> "wl"
      [] op = "comments" -> "c"

Listings == {"parameters", "parser_functions", "templates", "wikilinks", "comments"}

CallOf(op, v, arg) == [op |-> op, view |-> v, arg |-> arg]

\* the outcome of a setter
Outcome(r) == [doc |-> r.doc, views |-> <<>>, err |-> r.err]

\* the outcome of a query
Listed(r) == [doc |-> r.doc, views |-> r.views, err |-> "none"]

----------------------------------------------------------------------------
(* The state machine of a document: Init is a constructed WikiText, every  *)
(* action is one call on the document or on a view of one of its slots.    *)

\* the number of calls made on one document
MaxCalls == 3

\* the texts documents are constructed from
Documents ==
    { <<"a">>,
      <<"{", "{", "a", "|", "x", "=", "b", "|", "x", "=", "c", "}", "}">>,
      <<"{", "{", "a", "|", "x", "=", "b", "|", "x", "=", "b", "|", "x", "=", "}", "}">>,
      <<"{", "{", "a", "|", "{", "{", "b", "}", "}", "}", "}">>,
      <<"{", "{", "a", "|", "b", "|", "c", "}", "}">>,
      <<"{", "{", "a", "|", "b", "|", "c", "|", "1", "=", "d", "}", "}">>,
      <<"{", "{", "a", "|", "[", "[", "b", "|", "c", "]", "]", "}", "}">>,
      <<"{", "{", "{", "{", "b", "|", "c", "}", "}", "|", "d", "}", "}">>,
      <<"{", "{", "#", "a", "|", "b", ":", "c", "}", "}">>,
      <<"{", "{", "#", "i", "f", ":", "a", "|", "b", "}", "}">>,
      <<"[", "[", "a", "|", "b", "]", "]">>,
      <<"{", "{", "{", "a", "|", "b", "}", "}", "}">>,
      <<"=", "=", "a", "=">>,
      <<"=", "a", "=", "\n", "=", "b", "=", "\n", "=", "=", "c", "=", "=">>,
      <<"[", "h", "t", "t", "p", ":", "/", "/", "a", " ", "b", "]">>,
      <<"<", "!", "-", "-", "a", "-", "-", ">", "{", "{", "a", "}", "}">> }

\* the new texts setters are given
NewTexts == { <<>>, <<"x">>, <<"|", "y", "=", "z">>, <<"{", "{", "b", "}", "}", "c">> }

\* the new levels Section.level is given
NewLevels == {0, 2}

\* the document in the state
Doc == [buf |-> Buffer, spans |-> spans]

\* the views a caller may hold: the document itself and one per slot (each
\* slot was returned as a view by the query that appended it; nowiki spans
\* have no view class)
Views ==
    {Root} \cup
    UNION {{View(cat, i - 1) : i \in 1..Len(spans[cat])} :
            cat \in DOMAIN spans \ {"nw"}}

ViewsOf(class) == {v \in Views : ClassOf(v.cat) = class}

\* braces and brackets are balanced in text
Balanced(text) ==
    LET count(c, k) == Cardinality({j \in 1..k : text[j] = c})
    IN  /\ \A k \in 1..Len(text) :
            /\ count("{", k) >= count("}", k)
            /\ count("[", k) >= count("]", k)
        /\ count("{", Len(text)) = count("}", Len(text))
        /\ count("[", Len(text)) = count("]", Len(text))

NoCall == [op |-> "init", view |-> Root, arg |-> <<>>]

\* the bookkeeping of a run that starts from text
NoHistory(text) ==
    [calls |-> 0, len0 |-> Len(text), deltas |-> 0, balanced |-> Balanced(text)]

\* the state a constructed document starts in: _get_spans has returned
Constructed(text) ==
    LET built(st) ==
            /\ spans = [k \in TokCategories |-> st[k]]
            /\ tok = st
    IN  /\ Buffer = text
        /\ built(TokRun(TokInit(text), "c"))
        /\ err = "none"
        /\ last = NoCall
        /\ result = <<>>
        /\ hist = NoHistory(text)
        /\ pc = "done"

Init == \E text \in Documents : Constructed(text)

\* the call c is made and returns or raises with the outcome r
Do(c, r) ==
    /\ pc = "done"
    /\ hist.calls < MaxCalls
    /\ Buffer' = r.doc.buf
    /\ spans' = r.doc.spans
    /\ err' = r.err
    /\ result' = r.views
    /\ last' = c
    /\ hist' = [hist EXCEPT !.calls = @ + 1,
                            !.deltas = IF c.op = "string"
                                       THEN @ + LengthDelta(Doc, c.view, c.arg)
                                       ELSE @,
                            !.balanced = @ /\ Balanced(r.doc.buf)]
    /\ UNCHANGED <<tok, pc>>

\* view.string = text
SetString ==
    \E v \in Views, text \in NewTexts :
        Do(CallOf("string", v, text), Outcome(Ok(set_string(Doc, v, text))))

\* the listing properties of the document
ListNodes ==
    \E v \in ViewsOf("WikiText"), op \in Listings :
        Do(CallOf(op, v, <<>>),
           Listed([doc |-> Doc,
                   views |-> gen_subspan_indices(Doc, v, ListedCategory(op))]))

\* template.arguments
TemplateArguments ==
    \E v \in ViewsOf("Template") :
        Do(CallOf("arguments", v, <<>>), Listed(Template_arguments(Doc, v)))

\* parser_function.arguments
ParserFunctionArguments ==
    \E v \in ViewsOf("ParserFunction") :
        Do(CallOf("arguments", v, <<>>), Listed(ParserFunction_arguments(Doc, v)))

\* document.sections
Sections ==
    \E v \in ViewsOf("WikiText") :
        Do(CallOf("sections", v, <<>>), sections(Doc, v))

\* document.external_links
ExternalLinks ==
    \E v \in ViewsOf("WikiText") :
        Do(CallOf("external_links", v, <<>>), Listed(external_links(Doc, v)))

\* template.name = text
SetTemplateName ==
    \E v \in ViewsOf("Template"), text \in NewTexts :
        Do(CallOf("name", v, text), Outcome(Template_set_name(Doc, v, text)))

\* parameter.name = text
SetParameterName ==
    \E v \in ViewsOf("Parameter"), text \in NewTexts :
        Do(CallOf("name", v, text), Outcome(Parameter_set_name(Doc, v, text)))

\* argument.name = text
SetArgumentName ==
    \E v \in ViewsOf("Argument"), text \in NewTexts :
        Do(CallOf("name", v, text), Outcome(Argument_set_name(Doc, v, text)))

\* parameter.default = text
SetDefault ==
    \E v \in ViewsOf("Parameter"), text \in NewTexts :
        Do(CallOf("default", v, text), Outcome(Parameter_set_default(Doc, v, text)))

\* wikilink.target = text
SetTarget ==
    \E v \in ViewsOf("WikiLink"), text \in NewTexts :
        Do(CallOf("target", v, text), Outcome(WikiLink_set_target(Doc, v, text)))

\* wikilink.text = text
SetWikiLinkText ==
    \E v \in ViewsOf("WikiLink"), text \in NewTexts :
        Do(CallOf("text", v, text), Outcome(WikiLink_set_text(Doc, v, text)))

\* external_link.text = text
SetExternalLinkText ==
    \E v \in ViewsOf("ExternalLink"), text \in NewTexts :
        Do(CallOf("text", v, text), Outcome(ExternalLink_set_text(Doc, v, text)))

\* external_link.url = text
SetUrl ==
    \E v \in ViewsOf("ExternalLink"), text \in NewTexts :
        Do(CallOf("url", v, text), Outcome(ExternalLink_set_url(Doc, v, text)))

\* argument.value = text
SetValue ==
    \E v \in ViewsOf("Argument"), text \in NewTexts :
        Do(CallOf("value", v, text), Outcome(Argument_set_value(Doc, v, text)))

\* section.level = n
SetLevel ==
    \E v \in ViewsOf("Section"), n \in NewLevels :
        Do(CallOf("level", v, n), Outcome(Section_set_level(Doc, v, n)))

\* section.title = text
SetTitle ==
    \E v \in ViewsOf("Section"), text \in NewTexts :
        Do(CallOf("title", v, text), Outcome(Section_set_title(Doc, v, text)))

\* section.contents = text
SetContents ==
    \E v \in ViewsOf("Section"), text \in NewTexts :
        Do(CallOf("contents", v, text), Outcome(Section_set_contents(Doc, v, text)))

\* template.rm_first_of_dup_args()
RmFirstOfDupArgs ==
    \E v \in ViewsOf("Template") :
        Do(CallOf("rm_first_of_dup_args", v, <<>>),
           Outcome(rm_first_of_dup_args(Doc, v)))

\* template.rm_dup_args_safe(tag)
RmDupArgsSafe ==
    \E v \in ViewsOf("Template"), tag \in {<<>>, <<"t">>} :
        Do(CallOf("rm_dup_args_safe", v, tag),
           Outcome(rm_dup_args_safe(Doc, v, tag)))

Next ==
    \/ SetString
    \/ ListNodes
    \/ TemplateArguments
    \/ ParserFunctionArguments
    \/ Sections
    \/ ExternalLinks
    \/ SetTemplateName
    \/ SetParameterName
    \/ SetArgumentName
    \/ SetDefault
    \/ SetTarget
    \/ SetWikiLinkText
    \/ SetExternalLinkText
    \/ SetUrl
    \/ SetValue
    \/ SetLevel
    \/ SetTitle
    \/ SetContents
    \/ RmFirstOfDupArgs
    \/ RmDupArgsSafe

Spec == Init /\ [][Next]_vars

----------------------------------------------------------------------------
(* The state machine of _get_spans: one action per loop of the tokenizer,  *)
(* from the entry of the function to its return.                           *)

\* the number of pieces of a generated text
MaxPieces == 3

\* what generated texts are made of
Pieces ==
    { <<"{", "{">>, <<"}", "}">>, <<"{">>, <<"}">>, <<"#", ":">>, <<"a">>,
      <<"|">>, <<"[", "[">>, <<"]", "]">> }

\* the texts of at most n pieces
RECURSIVE PieceTexts(_)
PieceTexts(n) ==
    IF n = 0 THEN {<<>>}
    ELSE PieceTexts(n - 1) \cup
         {s \o p : s \in PieceTexts(n - 1), p \in Pieces}

\* malformed and nested markup
Malformed ==
    { <<"{", "{", "#", "{", "{", "#", ":", "}", "}", "}", "}">>,
      <<"{", "{", "{", "{", "{", "a", "}", "}", "}", "}", "}">>,
      <<"{", "{", "a", "|", "{", "{", "{", "b", "}", "}", "}", "}", "}", "}">>,
      <<"[", "[", "a", "|", "{", "{", "b", "}", "}", "]", "]", "{", "{">>,
      <<"<", "n", "o", "w", "i", "k", "i", ">", "{", "{", "a", "<", "/",
        "n", "o", "w", "i", "k", "i", ">", "}", "}">>,
      <<"<", "!", "-", "-", "{", "{", "a", "}", "}">> }

\* the texts _get_spans is run on
TokTexts == Documents \cup Malformed \cup PieceTexts(MaxPieces)

\* _get_spans is entered
InitTok ==
    \E text \in TokTexts :
        /\ Buffer = text
        /\ spans = [k \in TokCategories |-> <<>>]
        /\ err = "none"
        /\ last = NoCall
        /\ result = <<>>
        /\ hist = NoHistory(text)
        /\ tok = TokInit(text)
        /\ pc = "c"

\* the step of _get_spans at the place at, where it is; the dictionary is
\* returned when the outer loop is left
Tokenize(at) ==
    LET step(n) ==
            /\ tok' = n[1]
            /\ pc' = n[2]
            /\ spans' = IF n[2] = "done"
                        THEN [k \in TokCategories |-> n[1][k]] ELSE spans
    IN  /\ step(TokStep(tok, at))
        /\ UNCHANGED <<Buffer, err, last, result, hist>>

\* for match in COMMENT_REGEX.finditer(string)
PassComments == pc = "c" /\ Tokenize("c")

\* for match in NOWIKI_REGEX.finditer(string)
PassNowiki == pc = "nw" /\ Tokenize("nw")

\* for match in WIKILINK_REGEX.finditer(string)
PassWikiLinks == pc = "wl" /\ Tokenize("wl")

\* while True: the lone and stray braces are masked
LoopHead == pc = "braces" /\ Tokenize("braces")

\* while loop: for match in TEMPLATE_PARAMETER_REGEX.finditer(string)
PassParameters == pc = "p" /\ Tokenize("p")

\* while loop: for match in PARSER_FUNCTION_REGEX.finditer(string)
PassParserFunctions == pc = "pf" /\ Tokenize("pf")

\* while loop: for match in TEMPLATE_NOT_PARAM_REGEX.finditer(string)
PassTemplates == pc = "t" /\ Tokenize("t")

\* if not match: break
LoopExit == pc = "check" /\ Tokenize("check")

NextTok ==
    \/ PassComments
    \/ PassNowiki
    \/ PassWikiLinks
    \/ LoopHead
    \/ PassParameters
    \/ PassParserFunctions
    \/ PassTemplates
    \/ LoopExit

SpecTok == InitTok /\ [][NextTok]_vars

\* a call of _get_spans runs on, nothing suspends it: weak fairness of
\* NextTok, []<>~ENABLED <<NextTok>>_vars \/ []<><<NextTok>>_vars, where
\* ENABLED <<NextTok>>_vars is written as the state predicate it equals (every
\* place but the return has a step, and every step changes tok or pc)
SpecTokFair == SpecTok /\ ([]<>(pc = "done") \/ []<><<NextTok>>_vars)

----------------------------------------------------------------------------
(* Replacements alone, from any span table within the bounds of its text   *)

\* the length of the text replacements start from
MaxText == 3

\* the spans within a text of length n
SpansWithin(n) == {sp \in (0..n) \X (0..n) : sp[1] <= sp[2]}

\* a text of length n and a table of two spans within it
InitReplace ==
    \E n \in 0..MaxText :
        \E a \in SpansWithin(n), b \in SpansWithin(n) :
            /\ Buffer = Repeat(<<"a">>, n)
            /\ spans = [k \in TokCategories |-> IF k = "t" THEN <<a, b>> ELSE <<>>]
            /\ err = "none"
            /\ last = NoCall
            /\ result = <<>>
            /\ hist = NoHistory(Buffer)
            /\ tok = TokInit(Buffer)
            /\ pc = "done"

SpecReplace == InitReplace /\ [][SetString]_vars

----------------------------------------------------------------------------
(* The claims                                                              *)

\* every span of the table lies within a text of length n, start before end
InBounds(table, n) ==
    \A k \in DOMAIN table : \A i \in 1..Len(table[k]) :
        0 <= table[k][i][1] /\ table[k][i][1] <= table[k][i][2] /\ table[k][i][2] <= n

\* C1: in every reachable state of a document, after construction and after
\* any queries and replacements, every span of every category, the argument
\* categories included, satisfies 0 <= start <= end <= len(Buffer)
SpansWithinBuffer == InBounds(spans, Len(Buffer))

\* C2: after each of any sequence of replacements that starts from a table
\* within bounds, len(Buffer) is the initial length plus the sum of the
\* length deltas applied so far, and every span is still within bounds
ReplaceKeepsLengthAndBounds ==
    /\ Len(Buffer) = hist.len0 + hist.deltas
    /\ \A k \in DOMAIN spans : \A i \in 1..Len(spans[k]) :
            /\ spans[k][i][1] <= spans[k][i][2]
            /\ spans[k][i][2] <= Len(Buffer)

\* C2 happens: two replacements made the text shorter and emptied a span
\* that had content
ReplacedToShorter ==
    /\ hist.calls = 2
    /\ last.op = "string"
    /\ hist.deltas < 0
    /\ Len(Buffer) > 0
    /\ \E i \in 1..Len(spans["t"]) : spans["t"][i][1] = spans["t"][i][2]
    /\ \E i \in 1..Len(spans["t"]) : spans["t"][i][1] < spans["t"][i][2]

\* C3: while every edit has kept braces and brackets balanced, every
\* non-degenerate span of the rebased table in a tokenizer category is a span
\* a tokenization of the buffer from scratch yields in that category
RebasedAgreesWithRetokenized ==
    LET fresh == get_spans(Buffer)
    IN  hist.balanced =>
            \A k \in TokCategories : \A i \in 1..Len(spans[k]) :
                spans[k][i][1] # spans[k][i][2] =>
                    \E j \in 1..Len(fresh[k]) : fresh[k][j] = spans[k][i]

\* the calls that read the table and may append to it, never edit the text
Queries == Listings \cup {"arguments", "external_links", "sections"}

\* C4: the table is append-only: no call removes a category or an entry, a
\* query other than sections leaves every entry it found as it was, under its
\* index, and a replacement by the empty text of a view that had content
\* leaves a zero-length entry in the view's slot
AppendOnly ==
    [][/\ \A k \in DOMAIN spans :
            /\ k \in DOMAIN spans'
            /\ Len(spans'[k]) >= Len(spans[k])
            /\ last'.op \in Queries \ {"sections"} /\ hist'.calls = hist.calls + 1 =>
                    \A i \in 1..Len(spans[k]) : spans'[k][i] = spans[k][i]
       /\ ( /\ hist'.calls = hist.calls + 1
            /\ last'.op = "string"
            /\ last'.arg = <<>>
            /\ last'.view # Root
            /\ string(Doc, last'.view) # <<>> )
          => /\ get_span([buf |-> Buffer', spans |-> spans'], last'.view)[1]
                = get_span([buf |-> Buffer', spans |-> spans'], last'.view)[2]
             /\ get_span([buf |-> Buffer', spans |-> spans'], last'.view)[1]
                = get_span(Doc, last'.view)[1]
      ]_vars

\* the offsets where a header line starts
HeaderLines(s) == {i \in 0..Len(s) : SECTION_HEADER_REGEX(s, i) >= 0}

\* C5: sections() returns without error on every text, the text without a
\* header line included: the lead section, from the start of the document to
\* the first header line, then one section per header line, in document order
SectionsReturnsLeadAndHeaders ==
    last.op = "sections" /\ last.view = Root =>
        /\ err = "none"
        /\ Len(result) = 1 + Cardinality(HeaderLines(Buffer))
        /\ get_span(Doc, result[1]) = <<0, Min(HeaderLines(Buffer) \cup {Len(Buffer)})>>
        /\ \A i \in 2..Len(result) :
                /\ get_span(Doc, result[i])[1] \in HeaderLines(Buffer)
                /\ get_span(Doc, result[i - 1])[1] <= get_span(Doc, result[i])[1]

\* C6: after sections(), the span of a section of level L ends at the next
\* header line of level <= L, at the end of the text when there is none, so
\* it covers its subsections and nothing beyond them
SectionCoversItsSubsections ==
    last.op = "sections" /\ last.view = Root /\ err = "none" =>
        \A i \in 2..Len(result) :
            LET level(j) == Section_level(Doc, result[j])
                next == {j \in (i + 1)..Len(result) : level(j) <= level(i)}
            IN  get_span(Doc, result[i])[2] =
                    IF next = {} THEN Len(Buffer)
                    ELSE get_span(Doc, result[Min(next)])[1]

\* C7: setting the title of a section of level 0 raises, and the buffer
\* and every span are after the call what they were before it
LeadTitleSetterRaises ==
    [][( /\ hist'.calls = hist.calls + 1
         /\ last'.op = "title"
         /\ Section_level(Doc, last'.view) = 0 )
       => /\ err' = "RuntimeError"
          /\ Buffer' = Buffer
          /\ spans' = spans
      ]_vars

\* C7 happens: sections() returned the lead section and its title was set
LeadTitleWasSet ==
    /\ last.op = "title"
    /\ last.view = View("s", 0)
    /\ Section_level(Doc, last.view) = 0
    /\ err = "RuntimeError"
    /\ hist.calls = 2

\* the property setters and the text setter
Setters ==
    {"string", "name", "default", "target", "text", "url", "value", "level",
     "title", "contents"}

\* C8: every setter but the title setter of a section of level 0 returns
\* without raising, for every new value and every state of its node, a node
\* whose span an earlier edit made zero-length included
OtherSettersReturn ==
    last.op \in Setters =>
        \/ err = "none"
        \/ last.op = "title" /\ err = "RuntimeError"

\* two spans are disjoint or one lies within the other
DisjointOrNested(a, b) ==
    \/ a[2] <= b[1]
    \/ b[2] <= a[1]
    \/ a[1] <= b[1] /\ b[2] <= a[2]
    \/ b[1] <= a[1] /\ a[2] <= b[2]

\* C9: in the table _get_spans returns, any two spans of one category are
\* disjoint or nested, never partially overlapping
CategorySpansNest ==
    pc = "done" =>
        \A k \in TokCategories : \A i, j \in 1..Len(spans[k]) :
            DisjointOrNested(spans[k][i], spans[k][j])

\* C10: _get_spans returns its table on every text, malformed or not (the
\* outer loop and every inner loop end), and the working string has at
\* every step the length of the text
TokenizerTotal ==
    /\ [](Len(tok.string) = Len(Buffer))
    /\ <>(pc = "done" /\ DOMAIN spans = TokCategories)

\* C10 happens: the outer loop ran more than once on nested templates, and
\* the string was masked
NestedTemplatesTokenized ==
    /\ pc = "done"
    /\ Len(spans["t"]) >= 2
    /\ \E i, j \in 1..Len(spans["t"]) :
            spans["t"][j][1] < spans["t"][i][1] /\ spans["t"][i][2] < spans["t"][j][2]
    /\ tok.string # Buffer
    /\ Len(tok.string) = Len(Buffer)

\* the text of a view has no equal sign
Positional(d, v) == Find(string(d, v), Equal, 0) = -1

\* the span of the view v is one a tokenization of the buffer as it is
\* yields in v's category: v is a node of the text
IsNode(d, v) ==
    LET among(list) == \E j \in 1..Len(list) : list[j] = get_span(d, v)
    IN  among(get_spans(d.buf)[v.cat])

\* C11: the name of every positional argument the arguments query of a
\* template or parser function of the text returns is its 1-based position
\* among the owner's positional arguments in text order: 1 plus the number
\* of arguments returned before it whose text is not empty and has no equal
\* sign; on a fresh parse and after edits
PositionalNameIsPosition ==
    last.op = "arguments" /\ IsNode(Doc, last.view) =>
        \A i \in 1..Len(result) :
            Positional(Doc, result[i]) =>
                Argument_name(Doc, result[i]) =
                    Str(1 + Cardinality({j \in 1..(i - 1) :
                            /\ string(Doc, result[j]) # <<>>
                            /\ Positional(Doc, result[j])}))

\* C12: when the splitter has run on a parent, none of the boundaries it
\* returns is at an offset inside the span of a node of a structural
\* category that lies inside the parent, between its delimiters: no bar
\* within a nested node splits the parent
SplitterSkipsNestedNodes ==
    last.op = "arguments" =>
        LET clear(pieces, parent) ==
                \A n \in 1..(Len(pieces) - 1) :
                    \A k \in TokCategories : \A i \in 1..Len(spans[k]) :
                        (parent[1] < spans[k][i][1] /\ spans[k][i][2] < parent[2])
                            => ~(/\ spans[k][i][1] <= pieces[n][2]
                                 /\ pieces[n][2] < spans[k][i][2])
        IN  clear(not_in_subspans_splitspans(Doc, last.view, Bar),
                  get_span(Doc, last.view))

\* C12 happens: the arguments of a template that holds a wikilink with a
\* bar were asked for, and the bar of the wikilink did not split them
BarOfWikiLinkSkipped ==
    /\ last.op = "arguments"
    /\ last.view = View("t", 0)
    /\ Buffer = <<"{", "{", "a", "|", "[", "[", "b", "|", "c", "]", "]", "}", "}">>
    /\ spans["wl"] = <<<<4, 11>>>>
    /\ Buffer[8] = "|"
    /\ Len(result) = 1
    /\ get_span(Doc, result[1]) = <<3, 11>>

\* C13: the name of a template of the text is the text between its opening
\* braces and the first bar that is not inside a nested node, the whole
\* interior when there is none: it ends where the first of its arguments
\* begins
TemplateNameEndsAtArguments ==
    (last.op = "arguments" /\ last.view.cat = "t" /\ IsNode(Doc, last.view)) =>
        LET upto(span, stop) ==
                Template_name(Doc, last.view) = PySlice(Buffer, span[1] + 2, stop)
        IN  upto(get_span(Doc, last.view),
                 IF result = <<>> THEN get_span(Doc, last.view)[2] - 2
                 ELSE get_span(Doc, result[1])[1])

\* the mapping a list of arguments renders to: the stripped name of each
\* argument with its value, the last occurrence of a name winning
ArgumentMapping(r) ==
    LET name(i) == Strip(Argument_name(r.doc, r.views[i]))
    IN  {<<name(i), Argument_value(r.doc, r.views[i])>> : i \in
            {i \in 1..Len(r.views) :
                \A j \in (i + 1)..Len(r.views) : name(j) # name(i)}}

\* the stripped names of a list of arguments are pairwise different
DistinctNames(r) ==
    \A i, j \in 1..Len(r.views) :
        i < j => Strip(Argument_name(r.doc, r.views[i])) #
                 Strip(Argument_name(r.doc, r.views[j]))

\* C14: rm_first_of_dup_args on a template of the text leaves one argument
\* for every name, and the mapping from argument name to value is the same
\* before and after the call
RmFirstOfDupArgsKeepsMapping ==
    [][(last'.op = "rm_first_of_dup_args" /\ IsNode(Doc, last'.view)) =>
        LET same(before, after) ==
                /\ DistinctNames(after)
                /\ ArgumentMapping(after) = ArgumentMapping(before)
        IN  same(Template_arguments(Doc, last'.view),
                 Template_arguments([buf |-> Buffer', spans |-> spans'],
                                    last'.view))]_vars

\* the value rm_dup_args_safe compares: stripped for an argument with an
\* equal sign, as written for a positional one
ComparedValue(d, v) ==
    IF Argument_equal_sign(d, v) # <<>> THEN Strip(Argument_value(d, v))
    ELSE Argument_value(d, v)

\* the arguments i and j of the list r have the same stripped name
SameName(r, i, j) ==
    Strip(Argument_name(r.doc, r.views[i])) = Strip(Argument_name(r.doc, r.views[j]))

\* C15: rm_dup_args_safe on a template of the text removes an argument only
\* when another argument has its name and either has its value too or the
\* removed one is empty, and afterwards no two non-empty arguments have the
\* same name and the same value
RmDupArgsSafeRemovesExactlyDuplicates ==
    [][(last'.op = "rm_dup_args_safe" /\ IsNode(Doc, last'.view)) =>
        LET value(r, i) == ComparedValue(r.doc, r.views[i])
            exact(before, after) ==
                /\ \A i, j \in 1..Len(after.views) :
                        (i < j /\ value(after, i) # <<>> /\ SameName(after, i, j))
                            => value(after, i) # value(after, j)
                /\ \A i \in 1..Len(before.views) :
                        string(after.doc, before.views[i]) = <<>> =>
                            \E j \in 1..Len(before.views) :
                                /\ j # i
                                /\ SameName(before, i, j)
                                /\ \/ value(before, i) = <<>>
                                   \/ value(before, i) = value(before, j)
        IN  exact(Template_arguments(Doc, last'.view),
                  Template_arguments([buf |-> Buffer', spans |-> spans'],
                                     last'.view))]_vars

\* the first line of s without its trailing spaces
TrimmedFirstLine(s) ==
    LET trimmed(line) ==
            SubSeq(line, 1, Max({n \in 0..Len(line) : n = 0 \/ line[n] # " "}))
    IN  trimmed(SubSeq(s, 1, LineEnd(s, 0)))

\* the number of equal signs line starts with, and ends with
LeadingEquals(line) == Max({k \in 0..Len(line) : \A j \in 1..k : line[j] = "="})

TrailingEquals(line) ==
    Max({k \in 0..Len(line) : \A j \in (Len(line) - k + 1)..Len(line) : line[j] = "="})

\* C16 as stated: a section has the level k > 0 only if its first line
\* starts with exactly k equal signs and, trailing spaces ignored, ends with
\* exactly k equal signs around a title that is not empty; the level is 0
\* whenever the two counts differ
LevelNeedsEqualCounts ==
    \A v \in ViewsOf("Section") :
        LET exact(level, line) ==
                level # 0 =>
                    /\ LeadingEquals(line) = level
                    /\ TrailingEquals(line) = level
                    /\ Len(line) > 2 * level
        IN  exact(Section_level(Doc, v), TrimmedFirstLine(string(Doc, v)))

\* C16 amended: the level of a section is the greatest k of 1..6 such that
\* its first line starts with k equal signs and, trailing spaces ignored,
\* ends with k equal signs that leave at least one character between the
\* two runs, and 0 when there is no such k; the counts of the two sides need
\* not be equal
LevelIsGreatestCommonCount ==
    \A v \in ViewsOf("Section") :
        LET common(line) ==
                Max({k \in 0..MaxLevel :
                        \/ k = 0
                        \/ /\ k <= LeadingEquals(line)
                           /\ k <= TrailingEquals(line)
                           /\ 2 * k < Len(line)})
        IN  Section_level(Doc, v) = common(TrimmedFirstLine(string(Doc, v)))

\* C16 happens: the section ==a= was listed, with two equal signs on the
\* left and one on the right, and its level is 1
UnequalCountsHaveLevel ==
    /\ Buffer = <<"=", "=", "a", "=">>
    /\ last.op = "sections"
    /\ Len(result) = 2
    /\ get_span(Doc, result[2]) = <<0, 4>>
    /\ Section_level(Doc, result[2]) = 1

\* the span sp after a replacement of length delta D anchored at p, as the
\* rule of C17 gives it: a positive D shifts the spans that start after p
\* and lengthens those that hold p; a negative D removes [p, p - D), whose
\* offsets all fall on p while the offsets after it move left by -D
RebasedByRule(sp, p, D) ==
    LET clip(x) == IF x <= p THEN x ELSE IF x < p - D THEN p ELSE x + D
    IN  IF D > 0
        THEN IF sp[1] > p THEN <<sp[1] + D, sp[2] + D>>
             ELSE IF sp[1] <= p /\ p < sp[2] THEN <<sp[1], sp[2] + D>>
             ELSE sp
        ELSE IF D < 0
        THEN IF sp[2] <= p THEN sp
             ELSE IF sp[1] >= p - D THEN <<sp[1] + D, sp[2] + D>>
             ELSE <<clip(sp[1]), clip(sp[2])>>
        ELSE sp

\* C17: a replacement of length delta D on a view that starts at p rebases
\* every span of every category by the rule: no slot is added or deleted,
\* and every span becomes what the rule gives for it
ReplaceRebasesByRule ==
    [][last'.op = "string" =>
        LET ruled(p, D) ==
                /\ DOMAIN spans' = DOMAIN spans
                /\ \A k \in DOMAIN spans :
                        /\ Len(spans'[k]) = Len(spans[k])
                        /\ \A i \in 1..Len(spans[k]) :
                                spans'[k][i] = RebasedByRule(spans[k][i], p, D)
        IN  ruled(get_span(Doc, last'.view)[1],
                  LengthDelta(Doc, last'.view, last'.arg))]_vars

\* C17 happens: the first view of the text aaa, on (1, 3), was emptied, so
\* [1, 3) was removed, and both spans are empty spans at 1, none deleted
RemovedRangeLeftEmptySpans ==
    /\ hist.calls = 1
    /\ last = CallOf("string", View("t", 0), <<>>)
    /\ hist.len0 = 3
    /\ hist.deltas = -2
    /\ Buffer = <<"a">>
    /\ spans["t"] = <<<<1, 1>>, <<1, 1>>>>

\* C18: right after view.string = t, on any view of any reachable state, a
\* view of an empty span included, view.string is t: the span of the view is
\* (start, start + len(t))
ReadAfterWrite ==
    last.op = "string" =>
        /\ string(Doc, last.view) = last.arg
        /\ get_span(Doc, last.view)[2] = get_span(Doc, last.view)[1] + Len(last.arg)

\* C19: when view.string = t replaces the text of a view that is not empty,
\* on (s, e), every span that ends at or before s keeps its coordinates and
\* its characters, every span that starts at or after e has both coordinates
\* shifted by the length delta and keeps its characters, and every span that
\* encloses (s, e) denotes its old text with the slice of the view replaced
\* by t
ReplaceKeepsOtherTexts ==
    [][(last'.op = "string" /\ string(Doc, last'.view) # <<>>) =>
        LET kept(old, new, s, e, D) ==
                /\ old[2] <= s =>
                        /\ new = old
                        /\ PySlice(Buffer', new[1], new[2]) = PySlice(Buffer, old[1], old[2])
                /\ old[1] >= e =>
                        /\ new = <<old[1] + D, old[2] + D>>
                        /\ PySlice(Buffer', new[1], new[2]) = PySlice(Buffer, old[1], old[2])
                /\ (old[1] <= s /\ e <= old[2]) =>
                        /\ new = <<old[1], old[2] + D>>
                        /\ PySlice(Buffer', new[1], new[2]) =
                                PySlice(Buffer, old[1], s) \o last'.arg \o
                                PySlice(Buffer, e, old[2])
            frame(span, D) ==
                \A k \in DOMAIN spans : \A i \in 1..Len(spans[k]) :
                    kept(spans[k][i], spans'[k][i], span[1], span[2], D)
        IN  frame(get_span(Doc, last'.view),
                  LengthDelta(Doc, last'.view, last'.arg))]_vars

====
